---- MODULE Spec2Model ----
(***************************************************************************)
(* Model of stock_ai_screener.py (class AIStockScreener): the scorer       *)
(* calculate_score, the scenario calculator                                *)
(* calculate_investment_scenario, the Monte Carlo projection               *)
(* monte_carlo_projection and the screening run (screen_stock,             *)
(* screen_multiple_stocks, display_results) over self.results.             *)
(*                                                                         *)
(* Numbers.  A Python value that may be None is an option: None is <<>>    *)
(* and a present number v is <<v>>.  P/E ratios, prices and volumes are    *)
(* integers; return on equity, revenue growth, the stop-loss and           *)
(* take-profit percentages and the volatility are in hundredths (20 is     *)
(* 0.20); debt/equity is in hundredths (30 is 0.3).  Real arithmetic       *)
(* (division, the price path, the statistics) is done on exact rationals   *)
(* [n, d] with d > 0, and round(x, 2) yields an integer count of           *)
(* hundredths.  The inputs are chosen so that no value falls on a rounding *)
(* tie that binary floating point would not represent exactly.             *)
(***************************************************************************)
EXTENDS Integers, Sequences, FiniteSets

VARIABLES pc, data, ret, criteria, mcArgs, results, queue, runResults, report

vars == <<pc, data, ret, criteria, mcArgs, results, queue, runResults, report>>

(***************************************************************************)
(* Python values                                                           *)
(***************************************************************************)
None == <<>>

Some(v) == <<v>>

\* bool(x) of an optional number: None and 0 are falsy.
Truthy(x) == x # None /\ x[1] # 0

(***************************************************************************)
(* Exact rationals                                                         *)
(***************************************************************************)
Abs(x) == IF x < 0 THEN -x ELSE x

RECURSIVE GCD(_, _)
GCD(a, b) == IF b = 0 THEN a ELSE GCD(b, a % b)

Rat(n, d) ==
    LET s == IF d < 0 THEN -1 ELSE 1
        g == GCD(Abs(n), Abs(d))
    IN  [n |-> (s * n) \div g, d |-> (s * d) \div g]

RInt(k) == [n |-> k, d |-> 1]

\* The sum on the least common denominator, which keeps the numbers small.
RAdd(a, b) ==
    LET l == (a.d \div GCD(a.d, b.d)) * b.d
    IN  Rat(a.n * (l \div a.d) + b.n * (l \div b.d), l)

RNeg(a) == [n |-> -a.n, d |-> a.d]

RSub(a, b) == RAdd(a, RNeg(b))

RMul(a, b) ==
    LET g1 == GCD(Abs(a.n), b.d)
        g2 == GCD(Abs(b.n), a.d)
    IN  Rat((a.n \div g1) * (b.n \div g2), (a.d \div g2) * (b.d \div g1))

\* a / b for b # 0
RDiv(a, b) == RMul(a, Rat(b.d, b.n))

RLe(a, b) == RSub(a, b).n <= 0

RLt(a, b) == RSub(a, b).n < 0

\* round(x, 2): the nearest hundredth, ties to the even one, as a count of
\* hundredths.
Round2(x) ==
    LET whole == x.n \div x.d
        rest == x.n - whole * x.d
        q == (100 * rest) \div x.d
        r == 100 * rest - q * x.d
    IN  100 * whole + (IF 2 * r < x.d THEN q
                       ELSE IF 2 * r > x.d THEN q + 1
                       ELSE IF q % 2 = 0 THEN q ELSE q + 1)

(***************************************************************************)
(* calculate_score                                                         *)
(***************************************************************************)
\* A reason string: its fixed text and the number formatted into it (None
\* when the text has no number).
Reason(text, value) == [text |-> text, value |-> value]

\* P/E ratio (20 points)
pe_branch(d) ==
    IF Truthy(d.pe_ratio) /\ d.pe_ratio[1] > 0
    THEN IF d.pe_ratio[1] <= 15 THEN [points |-> 20, reasons |-> <<>>, fail |-> FALSE]
         ELSE IF d.pe_ratio[1] <= 25 THEN [points |-> 15, reasons |-> <<>>, fail |-> FALSE]
         ELSE IF d.pe_ratio[1] <= 35 THEN [points |-> 10, reasons |-> <<>>, fail |-> FALSE]
         ELSE [points |-> 0, reasons |-> <<Reason("High P/E", d.pe_ratio)>>, fail |-> TRUE]
    ELSE [points |-> 0, reasons |-> <<Reason("No P/E data", None)>>, fail |-> FALSE]

\* ROE (20 points), in hundredths
roe_branch(d) ==
    IF Truthy(d.roe)
    THEN IF d.roe[1] >= 20 THEN [points |-> 20, reasons |-> <<>>, fail |-> FALSE]
         ELSE IF d.roe[1] >= 15 THEN [points |-> 15, reasons |-> <<>>, fail |-> FALSE]
         ELSE IF d.roe[1] >= 10 THEN [points |-> 10, reasons |-> <<>>, fail |-> FALSE]
         ELSE [points |-> 0, reasons |-> <<Reason("Low ROE", d.roe)>>, fail |-> TRUE]
    ELSE [points |-> 0, reasons |-> <<Reason("No ROE data", None)>>, fail |-> FALSE]

\* Debt-to-Equity (15 points), in hundredths; no else branch
de_branch(d) ==
    IF Truthy(d.debt_to_equity)
    THEN IF d.debt_to_equity[1] <= 30 THEN [points |-> 15, reasons |-> <<>>, fail |-> FALSE]
         ELSE IF d.debt_to_equity[1] <= 50 THEN [points |-> 10, reasons |-> <<>>, fail |-> FALSE]
         ELSE IF d.debt_to_equity[1] <= 70 THEN [points |-> 5, reasons |-> <<>>, fail |-> FALSE]
         ELSE [points |-> 0, reasons |-> <<Reason("High Debt/Equity", d.debt_to_equity)>>,
               fail |-> TRUE]
    ELSE [points |-> 0, reasons |-> <<>>, fail |-> FALSE]

\* Revenue Growth (15 points), in hundredths; no else branch, never fails
rg_branch(d) ==
    IF Truthy(d.revenue_growth)
    THEN IF d.revenue_growth[1] >= 15 THEN [points |-> 15, reasons |-> <<>>, fail |-> FALSE]
         ELSE IF d.revenue_growth[1] >= 10 THEN [points |-> 12, reasons |-> <<>>, fail |-> FALSE]
         ELSE IF d.revenue_growth[1] >= 5 THEN [points |-> 8, reasons |-> <<>>, fail |-> FALSE]
         ELSE [points |-> 0, reasons |-> <<Reason("Low revenue growth", d.revenue_growth)>>,
               fail |-> FALSE]
    ELSE [points |-> 0, reasons |-> <<>>, fail |-> FALSE]

\* current_price / price_50_sma (15 points)
sma_branch(d) ==
    IF Truthy(d.price_50_sma) /\ Truthy(d.current_price)
    THEN LET price_ratio == Rat(d.current_price[1], d.price_50_sma[1])
         IN  IF RLe(Rat(100, 100), price_ratio)
             THEN [points |-> 15, reasons |-> <<>>, fail |-> FALSE]
             ELSE IF RLe(Rat(95, 100), price_ratio)
             THEN [points |-> 10, reasons |-> <<>>, fail |-> FALSE]
             ELSE IF RLe(Rat(90, 100), price_ratio)
             THEN [points |-> 5, reasons |-> <<>>, fail |-> FALSE]
             ELSE [points |-> 0,
                   reasons |-> <<Reason("Price below 50-day SMA", Some(Round2(price_ratio)))>>,
                   fail |-> FALSE]
    ELSE [points |-> 0, reasons |-> <<Reason("No technical data", None)>>, fail |-> FALSE]

\* volume_recent / volume_avg (15 points); no reason is ever given
volume_branch(d) ==
    IF Truthy(d.volume_avg) /\ Truthy(d.volume_recent) /\ d.volume_avg[1] > 0
    THEN LET volume_ratio == Rat(d.volume_recent[1], d.volume_avg[1])
         IN  IF RLe(Rat(12, 10), volume_ratio)
             THEN [points |-> 15, reasons |-> <<>>, fail |-> FALSE]
             ELSE IF RLe(Rat(8, 10), volume_ratio)
             THEN [points |-> 10, reasons |-> <<>>, fail |-> FALSE]
             ELSE IF RLe(Rat(5, 10), volume_ratio)
             THEN [points |-> 5, reasons |-> <<>>, fail |-> FALSE]
             ELSE [points |-> 0, reasons |-> <<>>, fail |-> FALSE]
    ELSE [points |-> 0, reasons |-> <<>>, fail |-> FALSE]

\* The return of calculate_score for a record that is None (or empty).
NoDataResultWrongReason == [passes |-> FALSE, score |-> 0, reasons |-> <<>>]

NoDataResult ==
    [passes |-> FALSE, score |-> 0, reasons |-> <<Reason("No data available", None)>>]

calculate_score(d) ==
    IF d = None
    THEN NoDataResult
    ELSE LET pe == pe_branch(d)
             roe == roe_branch(d)
             de == de_branch(d)
             rg == rg_branch(d)
             fundamental_score == pe.points + roe.points + de.points + rg.points
             sma == sma_branch(d)
             vol == volume_branch(d)
             technical_score == sma.points + vol.points
             total_score == fundamental_score + technical_score
             reasons == pe.reasons \o roe.reasons \o de.reasons \o rg.reasons \o sma.reasons
         IN  [passes |-> ~pe.fail /\ ~roe.fail /\ ~de.fail /\ ~(total_score < 60),
              score |-> total_score,
              reasons |-> IF total_score < 60
                          THEN Append(reasons, Reason("Low overall score", Some(total_score)))
                          ELSE reasons]

(***************************************************************************)
(* monte_carlo_projection                                                  *)
(***************************************************************************)
\* drift = 0.0004
drift == Rat(4, 10000)

\* The values np.random.normal(0, volatility / np.sqrt(252)) can return: 0
\* for a zero scale, any real for a positive one (two of them here: -0.5004
\* and 0.9996, which with the drift halve and double the price).
ShockOutcomes(volatility) ==
    IF volatility[1] = 0
    THEN {Rat(0, 1)}
    ELSE {Rat(-5004, 10000), Rat(9996, 10000)}

\* Whether the try block raises: np.random.normal on a None (TypeError) or
\* negative (ValueError) volatility, reached only when both loops run, and
\* the division by len(final_values) when there was no simulation.
mc_raises(volatility, days, simulations) ==
    \/ simulations > 0 /\ days > 0 /\ (volatility = None \/ volatility[1] < 0)
    \/ simulations = 0

\* The shock sequences the random source can produce for one call: one
\* shock for each day of each simulation.
ShockPaths(volatility, days, simulations) ==
    IF mc_raises(volatility, days, simulations) \/ days = 0
    THEN {[i \in 1..simulations |-> <<>>]}
    ELSE [1..simulations -> [1..days -> ShockOutcomes(volatility)]]

\* The inner loop: price *= (1 + drift + shock), day after day.
RECURSIVE price_path(_, _, _)
price_path(price, shocks, day) ==
    IF day > Len(shocks)
    THEN price
    ELSE price_path(RMul(price, RAdd(RAdd(RInt(1), drift), shocks[day])), shocks, day + 1)

RECURSIVE RSum(_, _)
RSum(values, i) == IF i > Len(values) THEN RInt(0) ELSE RAdd(values[i], RSum(values, i + 1))

\* np.mean
mean(values) == RDiv(RSum(values, 1), RInt(Len(values)))

RECURSIVE insert_sorted(_, _)
insert_sorted(sorted, v) ==
    IF sorted = <<>> THEN <<v>>
    ELSE IF RLe(v, Head(sorted)) THEN <<v>> \o sorted
    ELSE <<Head(sorted)>> \o insert_sorted(Tail(sorted), v)

RECURSIVE sort_values(_)
sort_values(values) ==
    IF values = <<>> THEN <<>> ELSE insert_sorted(sort_values(Tail(values)), Head(values))

\* np.percentile(values, q), linear interpolation between the two closest
\* ranks of the sorted values
percentile(values, q) ==
    LET s == sort_values(values)
        rank == q * (Len(values) - 1)
        lo == rank \div 100
        frac == Rat(rank % 100, 100)
    IN  IF frac.n = 0
        THEN s[lo + 1]
        ELSE RAdd(s[lo + 1], RMul(frac, RSub(s[lo + 2], s[lo + 1])))

\* sum(1 for v in final_values if v > 1000) / len(final_values)
profit_fraction(final_values) ==
    Rat(Cardinality({i \in 1..Len(final_values) : RLt(RInt(1000), final_values[i])}),
        Len(final_values))

\* The except branch, computed from the literal 1000.
mc_fallback ==
    [average |-> RMul(RInt(1000), Rat(115, 100)),
     best_case |-> RMul(RInt(1000), Rat(130, 100)),
     worst_case |-> RMul(RInt(1000), Rat(85, 100)),
     probability_profit |-> Rat(65, 100)]

\* The percentiles exchanged: best_case from the 10th, worst_case from the
\* 90th.
mc_statistics_swapped(current_price, shares, days, simulations, shocks) ==
    LET final_prices == [i \in 1..simulations |-> price_path(current_price, shocks[i], 1)]
        final_values == [i \in 1..simulations |-> RMul(final_prices[i], shares)]
    IN  [average |-> mean(final_values),
         best_case |-> percentile(final_values, 10),
         worst_case |-> percentile(final_values, 90),
         probability_profit |-> profit_fraction(final_values)]

\* The try branch for a call that does not raise.
mc_statistics(current_price, shares, days, simulations, shocks) ==
    LET final_prices == [i \in 1..simulations |-> price_path(current_price, shocks[i], 1)]
        final_values == [i \in 1..simulations |-> RMul(final_prices[i], shares)]
    IN  [average |-> mean(final_values),
         best_case |-> percentile(final_values, 90),
         worst_case |-> percentile(final_values, 10),
         probability_profit |-> profit_fraction(final_values)]

\* The fallback scaled to the caller's position instead of the literal 1000.
monte_carlo_projection_scaled(current_price, volatility, shares, days, simulations, shocks) ==
    IF mc_raises(volatility, days, simulations)
    THEN LET budget == RMul(current_price, shares)
         IN  [average |-> RMul(budget, Rat(115, 100)),
              best_case |-> RMul(budget, Rat(130, 100)),
              worst_case |-> RMul(budget, Rat(85, 100)),
              probability_profit |-> Rat(65, 100)]
    ELSE mc_statistics(current_price, shares, days, simulations, shocks)

monte_carlo_projection(current_price, volatility, shares, days, simulations, shocks) ==
    IF mc_raises(volatility, days, simulations)
    THEN mc_fallback
    ELSE mc_statistics(current_price, shares, days, simulations, shocks)

(***************************************************************************)
(* calculate_investment_scenario                                           *)
(***************************************************************************)
\* The empty dict {}
EmptyDict == <<>>

\* The keyword defaults of monte_carlo_projection (days = 252,
\* simulations = 1000), which calculate_investment_scenario leaves in
\* place, cut down to what can be enumerated.
DefaultDays == 1

DefaultSimulations == 2

\* The shock sequences one call of calculate_investment_scenario can draw.
ScenarioShocks(d) ==
    IF d = None \/ d.current_price = None
    THEN {<<>>}
    ELSE ShockPaths(d.volatility, DefaultDays, DefaultSimulations)

\* Whether calculate_investment_scenario raises: investment / current_price
\* with a price of 0 (ZeroDivisionError).
scenario_raises(d) == d # None /\ d.current_price = Some(0)

\* shares rounded to two decimals before it is used, not only when reported.
scenario_record_rounded_early(d, crit, shocks) ==
    LET current_price == RInt(d.current_price[1])
        investment == RInt(crit.investment_amount)
        stop_loss_pct == Rat(crit.stop_loss_percentage, 100)
        take_profit_pct == Rat(crit.take_profit_percentage, 100)
        shares == Rat(Round2(RDiv(investment, current_price)), 100)
        total_cost == RMul(shares, current_price)
        stop_loss_price == RMul(current_price, RSub(RInt(1), stop_loss_pct))
        take_profit_price == RMul(current_price, RAdd(RInt(1), take_profit_pct))
        risk_per_share == RSub(current_price, stop_loss_price)
        total_risk == RMul(risk_per_share, shares)
        projections == monte_carlo_projection(current_price, d.volatility, shares,
                                              DefaultDays, DefaultSimulations, shocks)
    IN  [investment_amount |-> crit.investment_amount,
         current_price |-> d.current_price[1],
         shares |-> Round2(shares),
         total_cost |-> Round2(total_cost),
         stop_loss_price |-> Round2(stop_loss_price),
         take_profit_price |-> Round2(take_profit_price),
         risk_per_share |-> Round2(risk_per_share),
         total_risk |-> Round2(total_risk),
         risk_reward_ratio |-> Round2(RDiv(take_profit_pct, stop_loss_pct)),
         conservative_value |-> Round2(RMul(total_cost, RAdd(RInt(1), Rat(8, 100)))),
         moderate_value |-> Round2(RMul(total_cost, RAdd(RInt(1), Rat(15, 100)))),
         aggressive_value |-> Round2(RMul(total_cost, RAdd(RInt(1), Rat(25, 100)))),
         mc_avg_projection |-> Round2(projections.average),
         mc_best_case |-> Round2(projections.best_case),
         mc_worst_case |-> Round2(projections.worst_case),
         mc_probability_profit |-> projections.probability_profit]

\* The scenario dict built for a record with a usable price.  The amounts
\* are counts of hundredths; mc_probability_profit is the raw fraction.
scenario_record(d, crit, shocks) ==
    LET current_price == RInt(d.current_price[1])
        investment == RInt(crit.investment_amount)
        stop_loss_pct == Rat(crit.stop_loss_percentage, 100)
        take_profit_pct == Rat(crit.take_profit_percentage, 100)
        shares == RDiv(investment, current_price)
        total_cost == RMul(shares, current_price)
        stop_loss_price == RMul(current_price, RSub(RInt(1), stop_loss_pct))
        take_profit_price == RMul(current_price, RAdd(RInt(1), take_profit_pct))
        risk_per_share == RSub(current_price, stop_loss_price)
        total_risk == RMul(risk_per_share, shares)
        projections == monte_carlo_projection(current_price, d.volatility, shares,
                                              DefaultDays, DefaultSimulations, shocks)
    IN  [investment_amount |-> crit.investment_amount,
         current_price |-> d.current_price[1],
         shares |-> Round2(shares),
         total_cost |-> Round2(total_cost),
         stop_loss_price |-> Round2(stop_loss_price),
         take_profit_price |-> Round2(take_profit_price),
         risk_per_share |-> Round2(risk_per_share),
         total_risk |-> Round2(total_risk),
         risk_reward_ratio |-> Round2(RDiv(take_profit_pct, stop_loss_pct)),
         conservative_value |-> Round2(RMul(total_cost, RAdd(RInt(1), Rat(8, 100)))),
         moderate_value |-> Round2(RMul(total_cost, RAdd(RInt(1), Rat(15, 100)))),
         aggressive_value |-> Round2(RMul(total_cost, RAdd(RInt(1), Rat(25, 100)))),
         mc_avg_projection |-> Round2(projections.average),
         mc_best_case |-> Round2(projections.best_case),
         mc_worst_case |-> Round2(projections.worst_case),
         mc_probability_profit |-> projections.probability_profit]

\* The return of a call that does not raise.
calculate_investment_scenario(d, crit, shocks) ==
    IF d = None \/ d.current_price = None
    THEN EmptyDict
    ELSE scenario_record(d, crit, shocks)

(***************************************************************************)
(* screen_stock, display_results                                           *)
(***************************************************************************)
\* The result dict screen_stock builds for a record that was retrieved.
screen_result(ticker, d, crit, shocks) ==
    LET scored == calculate_score(d)
    IN  [ticker |-> ticker,
         current_price |-> d.current_price,
         pe_ratio |-> d.pe_ratio,
         roe |-> d.roe,
         debt_to_equity |-> d.debt_to_equity,
         revenue_growth |-> d.revenue_growth,
         score |-> scored.score,
         passes |-> scored.passes,
         reasons |-> scored.reasons,
         investment_scenario |->
             IF scored.passes /\ Truthy(d.current_price)
             THEN calculate_investment_scenario(d, crit, shocks)
             ELSE EmptyDict]

\* self.results after screen_stock(ticker), d being what get_stock_data
\* returned.
screen_stock(res, ticker, d, crit, shocks) ==
    IF d = None
    THEN res
    ELSE Append(res, screen_result(ticker, d, crit, shocks))

\* The shock sequences one call of screen_stock can draw.
ScreenShocks(d) ==
    IF d # None /\ calculate_score(d).passes /\ Truthy(d.current_price)
    THEN ScenarioShocks(d)
    ELSE {<<>>}

\* [r for r in rs if keep(r)]
RECURSIVE select_passes(_, _)
select_passes(rs, flag) ==
    IF rs = <<>> THEN <<>>
    ELSE IF Head(rs).passes = flag
    THEN <<Head(rs)>> \o select_passes(Tail(rs), flag)
    ELSE select_passes(Tail(rs), flag)

\* list.sort(key = score, reverse = True): stable, highest score first
RECURSIVE insert_by_score(_, _)
insert_by_score(sorted, r) ==
    IF sorted = <<>> THEN <<r>>
    ELSE IF Head(sorted).score < r.score THEN <<r>> \o sorted
    ELSE <<Head(sorted)>> \o insert_by_score(Tail(sorted), r)

RECURSIVE sort_by_score(_, _)
sort_by_score(rs, n) ==
    IF n = 0 THEN <<>> ELSE insert_by_score(sort_by_score(rs, n - 1), rs[n])

\* rs[:n]
take(rs, n) == SubSeq(rs, 1, IF Len(rs) < n THEN Len(rs) ELSE n)

\* Whether display_results raises: the loop over passed_stocks[:5] reads
\* scenario['current_price'] and the other keys of each investment_scenario,
\* a KeyError when it is the empty dict.
display_raises(res) ==
    LET passed_stocks == select_passes(res, TRUE)
        shown == take(sort_by_score(passed_stocks, Len(passed_stocks)), 5)
    IN  \E i \in 1..Len(shown) : shown[i].investment_scenario = EmptyDict

\* What display_results reports when it does not raise: the two partitions
\* of self.results, each sorted by score, and the slices it prints.
display_results(res) ==
    LET passed_stocks == select_passes(res, TRUE)
        failed_stocks == select_passes(res, FALSE)
        passed_sorted == sort_by_score(passed_stocks, Len(passed_stocks))
        failed_sorted == sort_by_score(failed_stocks, Len(failed_stocks))
    IN  [passed_stocks |-> passed_sorted,
         failed_stocks |-> failed_sorted,
         total |-> Len(res),
         recommended |-> take(passed_sorted, 5),
         watch |-> take(failed_sorted, 3)]

(***************************************************************************)
(* Inputs                                                                  *)
(***************************************************************************)
\* self.criteria as __init__ sets it (the fields the scenario reads)
InitCriteria ==
    [investment_amount |-> 1000, stop_loss_percentage |-> 8, take_profit_percentage |-> 20]

CriteriaSet ==
    [investment_amount : {500, 1000, 2000},
     stop_loss_percentage : {5, 8},
     take_profit_percentage : {20, 25}]

\* current_price with price_50_sma, and volume_recent with volume_avg
PriceSmaPairs ==
    {<<None, None>>, <<Some(100), None>>, <<Some(0), Some(100)>>, <<Some(80), Some(100)>>,
     <<Some(90), Some(100)>>, <<Some(95), Some(100)>>, <<Some(105), Some(100)>>}

VolumePairs ==
    {<<None, None>>, <<Some(100), Some(0)>>, <<Some(40), Some(100)>>, <<Some(50), Some(100)>>,
     <<Some(130), Some(100)>>}

\* The Metric Records the scorer is applied to.
ScoreRecords ==
    {[pe_ratio |-> pe, roe |-> roe, debt_to_equity |-> de, revenue_growth |-> rg,
      current_price |-> ps[1], price_50_sma |-> ps[2],
      volume_recent |-> vp[1], volume_avg |-> vp[2], volatility |-> Some(0)] :
        pe \in {None, Some(-5), Some(0), Some(15), Some(25), Some(35), Some(40)},
        roe \in {None, Some(-5), Some(0), Some(10), Some(15), Some(22)},
        de \in {None, Some(0), Some(30), Some(50), Some(70), Some(80)},
        rg \in {None, Some(0), Some(4), Some(10), Some(18)},
        ps \in PriceSmaPairs, vp \in VolumePairs}

\* A record whose every factor earns its full points, at the given price and
\* volatility.
FavorableRecord(price, volatility) ==
    [pe_ratio |-> Some(12), roe |-> Some(22), debt_to_equity |-> Some(25),
     revenue_growth |-> Some(18), current_price |-> price,
     price_50_sma |-> IF Truthy(price) THEN Some((price[1] * 100) \div 105) ELSE None,
     volume_recent |-> Some(130), volume_avg |-> Some(100), volatility |-> volatility]

\* The records the scenario calculator is applied to.
ScenarioRecords ==
    {FavorableRecord(price, volatility) :
        price \in {None, Some(0), Some(1), Some(3), Some(7), Some(64), Some(100), Some(250)},
        volatility \in {None, Some(0), Some(30)}}

\* The arguments monte_carlo_projection is applied to: every small run, and
\* the run of the documented example (price 100, volatility 0.3, 10 shares)
\* with as many simulations as can be enumerated.
MaxSimulations == 11

MCArgSet ==
    [current_price : {50, 100}, volatility : {None, Some(-30), Some(0), Some(30)},
     shares : {5, 10}, days : 0..2, simulations : 0..3]
    \cup
    [current_price : {100}, volatility : {Some(30)}, shares : {10}, days : {1},
     simulations : {MaxSimulations}]

\* What get_stock_data can return in a screening run: None when the
\* retrieval failed, else one of four records (all favorable; P/E 30, score
\* 90; no trading history and no price, score 70; P/E 40, disqualified).
RunRecords ==
    {None,
     FavorableRecord(Some(100), Some(0)),
     [FavorableRecord(Some(100), Some(0)) EXCEPT !.pe_ratio = Some(30)],
     [FavorableRecord(None, Some(30)) EXCEPT !.volume_recent = None, !.volume_avg = None],
     [FavorableRecord(Some(100), Some(0)) EXCEPT !.pe_ratio = Some(40)]}

Tickers == {"AAPL", "MSFT"}

\* The longest ticker list of one run, and the most results self.results
\* may hold before no further run is started.
MaxTickers == 2

MaxResults == 3

TickerLists == UNION {[1..n -> Tickers] : n \in 0..MaxTickers}

(***************************************************************************)
(* The scorer applied to one record: calculate_score, screen_stock         *)
(***************************************************************************)
InitScore ==
    /\ pc = "input"
    /\ data \in ScoreRecords \cup {None}
    /\ ret = None
    /\ criteria = InitCriteria
    /\ mcArgs = None
    /\ results = <<>>
    /\ queue = <<>>
    /\ runResults = <<>>
    /\ report = None

CallScore ==
    /\ pc = "input"
    /\ ret' = calculate_score(data)
    /\ pc' = "scored"
    /\ UNCHANGED <<data, criteria, mcArgs, results, queue, runResults, report>>

CallScreen ==
    /\ pc = "input"
    /\ \E shocks \in ScreenShocks(data) :
          results' = screen_stock(results, "AAPL", data, criteria, shocks)
    /\ pc' = "screened"
    /\ UNCHANGED <<data, ret, criteria, mcArgs, queue, runResults, report>>

NextScore == CallScore \/ CallScreen

SpecScore == InitScore /\ [][NextScore]_vars

(***************************************************************************)
(* The scenario calculator applied to one record                           *)
(***************************************************************************)
InitScenario ==
    /\ pc = "input"
    /\ data \in ScenarioRecords \cup {None}
    /\ ret = None
    /\ criteria \in CriteriaSet
    /\ mcArgs = None
    /\ results = <<>>
    /\ queue = <<>>
    /\ runResults = <<>>
    /\ report = None

CallScenario ==
    /\ pc = "input"
    /\ ~scenario_raises(data)
    /\ \E shocks \in ScenarioShocks(data) :
          ret' = calculate_investment_scenario(data, criteria, shocks)
    /\ pc' = "built"
    /\ UNCHANGED <<data, criteria, mcArgs, results, queue, runResults, report>>

CallScenarioRaises ==
    /\ pc = "input"
    /\ scenario_raises(data)
    /\ pc' = "raised"
    /\ UNCHANGED <<data, ret, criteria, mcArgs, results, queue, runResults, report>>

NextScenario == CallScenario \/ CallScenarioRaises

SpecScenario == InitScenario /\ [][NextScenario]_vars

(***************************************************************************)
(* The projection applied to one set of arguments                          *)
(***************************************************************************)
InitMC ==
    /\ pc = "input"
    /\ data = None
    /\ ret = None
    /\ criteria = InitCriteria
    /\ mcArgs \in MCArgSet
    /\ results = <<>>
    /\ queue = <<>>
    /\ runResults = <<>>
    /\ report = None

CallMC ==
    /\ pc = "input"
    /\ \E shocks \in ShockPaths(mcArgs.volatility, mcArgs.days, mcArgs.simulations) :
          ret' = monte_carlo_projection(RInt(mcArgs.current_price), mcArgs.volatility,
                                        RInt(mcArgs.shares), mcArgs.days,
                                        mcArgs.simulations, shocks)
    /\ pc' = "projected"
    /\ UNCHANGED <<data, criteria, mcArgs, results, queue, runResults, report>>

NextMC == CallMC

SpecMC == InitMC /\ [][NextMC]_vars

(***************************************************************************)
(* Screening runs on one screener                                          *)
(***************************************************************************)
Init ==
    /\ pc = "idle"
    /\ data = None
    /\ ret = None
    /\ criteria = InitCriteria
    /\ mcArgs = None
    /\ results = <<>>
    /\ queue = <<>>
    /\ runResults = <<>>
    /\ report = None

\* screen_multiple_stocks(tickers) is called; runResults starts recording
\* what this call appends.
StartRun ==
    /\ pc \in {"idle", "done"}
    /\ \E tickers \in TickerLists :
          /\ Len(results) + Len(tickers) <= MaxResults
          /\ queue' = tickers
    /\ runResults' = <<>>
    /\ pc' = "screening"
    /\ UNCHANGED <<data, ret, criteria, mcArgs, results, report>>

\* One turn of the loop: screen_stock(ticker) on what get_stock_data returns.
ScreenStock ==
    /\ pc = "screening"
    /\ queue # <<>>
    /\ \E d \in RunRecords :
          \E shocks \in ScreenShocks(d) :
             /\ data' = d
             /\ results' = screen_stock(results, Head(queue), d, criteria, shocks)
             /\ runResults' = screen_stock(runResults, Head(queue), d, criteria, shocks)
    /\ queue' = Tail(queue)
    /\ UNCHANGED <<pc, ret, criteria, mcArgs, report>>

\* The loop is over: display_results() reports and the call returns.
DisplayResults ==
    /\ pc = "screening"
    /\ queue = <<>>
    /\ ~display_raises(results)
    /\ report' = display_results(results)
    /\ pc' = "done"
    /\ UNCHANGED <<data, ret, criteria, mcArgs, results, queue, runResults>>

\* display_results() raises KeyError, which screen_multiple_stocks lets
\* through to its caller.
DisplayResultsRaises ==
    /\ pc = "screening"
    /\ queue = <<>>
    /\ display_raises(results)
    /\ pc' = "raised"
    /\ UNCHANGED <<data, ret, criteria, mcArgs, results, queue, runResults, report>>

Next == StartRun \/ ScreenStock \/ DisplayResults \/ DisplayResultsRaises

Spec == Init /\ [][Next]_vars

(***************************************************************************)
(* Properties of the scorer (under SpecScore)                              *)
(***************************************************************************)
Scored == pc = "scored" /\ data # None

HasReason(reasons, text) == \E i \in 1..Len(reasons) : reasons[i].text = text

\* The three hard disqualifiers, on the record's values.
HardDisqualified(d) ==
    \/ d.pe_ratio # None /\ d.pe_ratio[1] > 35
    \/ d.roe # None /\ d.roe[1] < 10
    \/ d.debt_to_equity # None /\ d.debt_to_equity[1] > 70

\* C1: for every record that is not absent, passes is true exactly when
\* the score is at least 60 and none of P/E > 35, ROE < 0.10 (zero and
\* negative ROE included), debt/equity > 0.7 holds on the record's values.
C1_PassesIffScoreAndNoDisqualifier ==
    Scored => (ret.passes <=> (ret.score >= 60 /\ ~HardDisqualified(data)))

\* The point tables of the scorer, read on present values.
TablePE(f) ==
    IF f = None \/ f[1] <= 0 THEN 0
    ELSE IF f[1] <= 15 THEN 20 ELSE IF f[1] <= 25 THEN 15 ELSE IF f[1] <= 35 THEN 10 ELSE 0

TableROE(f) ==
    IF f = None THEN 0
    ELSE IF f[1] >= 20 THEN 20 ELSE IF f[1] >= 15 THEN 15 ELSE IF f[1] >= 10 THEN 10 ELSE 0

TableDE(f) ==
    IF f = None THEN 0
    ELSE IF f[1] <= 30 THEN 15 ELSE IF f[1] <= 50 THEN 10 ELSE IF f[1] <= 70 THEN 5 ELSE 0

TableRG(f) ==
    IF f = None THEN 0
    ELSE IF f[1] >= 15 THEN 15 ELSE IF f[1] >= 10 THEN 12 ELSE IF f[1] >= 5 THEN 8 ELSE 0

\* num / den against 1.0, 0.95, 0.90 (den > 0)
TableSMA(price, sma) ==
    IF price = None \/ sma = None \/ sma[1] <= 0 THEN 0
    ELSE IF 100 * price[1] >= 100 * sma[1] THEN 15
    ELSE IF 100 * price[1] >= 95 * sma[1] THEN 10
    ELSE IF 100 * price[1] >= 90 * sma[1] THEN 5 ELSE 0

TableVolume(recent, avg) ==
    IF recent = None \/ avg = None \/ avg[1] <= 0 THEN 0
    ELSE IF 10 * recent[1] >= 12 * avg[1] THEN 15
    ELSE IF 10 * recent[1] >= 8 * avg[1] THEN 10
    ELSE IF 10 * recent[1] >= 5 * avg[1] THEN 5 ELSE 0

TableScore(d) ==
    TablePE(d.pe_ratio) + TableROE(d.roe) + TableDE(d.debt_to_equity)
    + TableRG(d.revenue_growth) + TableSMA(d.current_price, d.price_50_sma)
    + TableVolume(d.volume_recent, d.volume_avg)

\* C2: the score is an integer in 0..100 and is exactly the sum of the
\* per-factor points of the tables, values equal to zero included
\* (debt/equity 0 earns 15).
C2_ScoreIsTableSum ==
    Scored => (ret.score \in 0..100 /\ ret.score = TableScore(data))

\* The reasons the scorer gives for something other than a missing
\* debt/equity or revenue growth.
OtherReasonTexts ==
    {"High P/E", "No P/E data", "Low ROE", "No ROE data", "High Debt/Equity",
     "Low revenue growth", "Price below 50-day SMA", "No technical data",
     "Low overall score"}

\* C3: each scored field that is missing contributes 0 points, has an
\* explanatory reason appended for it, and does not by itself set passes
\* to false.
C3_MissingFieldReason ==
    Scored =>
        /\ data.pe_ratio = None =>
              pe_branch(data).points = 0 /\ HasReason(ret.reasons, "No P/E data")
        /\ data.roe = None =>
              roe_branch(data).points = 0 /\ HasReason(ret.reasons, "No ROE data")
        /\ (data.current_price = None \/ data.price_50_sma = None) =>
              sma_branch(data).points = 0 /\ HasReason(ret.reasons, "No technical data")
        /\ data.debt_to_equity = None =>
              /\ de_branch(data).points = 0
              /\ \E i \in 1..Len(ret.reasons) : ret.reasons[i].text \notin OtherReasonTexts
        /\ data.revenue_growth = None =>
              /\ rg_branch(data).points = 0
              /\ \E i \in 1..Len(ret.reasons) : ret.reasons[i].text \notin OtherReasonTexts
        /\ (ret.score >= 60 /\ ~HardDisqualified(data)) => ret.passes

\* C4: only an absent field is reported as unknown; a field present with a
\* zero or negative value is judged by its table and disqualifier (ROE 0 is
\* a low ROE, P/E 0 is not "No P/E data"), and an absent field earns no
\* points.
C4_AbsentDistinctFromZero ==
    Scored =>
        /\ HasReason(ret.reasons, "No P/E data") => data.pe_ratio = None
        /\ HasReason(ret.reasons, "No ROE data") => data.roe = None
        /\ (data.roe # None /\ data.roe[1] < 10) =>
              HasReason(ret.reasons, "Low ROE") /\ ~ret.passes
        /\ data.pe_ratio = None => pe_branch(data).points = 0
        /\ data.roe = None => roe_branch(data).points = 0
        /\ data.debt_to_equity = None => de_branch(data).points = 0
        /\ data.revenue_growth = None => rg_branch(data).points = 0

\* C9: for an absent record calculate_score returns exactly
\* (false, 0, ["No data available"]), and screening that ticker appends no
\* result and so builds no investment scenario.
C9_AbsentRecord ==
    data = None =>
        /\ pc = "scored" =>
              ret = [passes |-> FALSE, score |-> 0,
                     reasons |-> <<[text |-> "No data available", value |-> <<>>]>>]
        /\ pc = "screened" => results = <<>>

C9_Witness == data = None /\ pc = "scored" /\ Len(ret.reasons) = 1

(***************************************************************************)
(* Properties of the scenario calculator (under SpecScenario)              *)
(***************************************************************************)
Built == pc = "built" /\ data # None /\ data.current_price # None /\ data.current_price[1] > 0

\* What does not depend on how the share count is reported: the price
\* levels, the risk, the ratio and the three fixed-return values, in
\* hundredths.
C5_Levels ==
    LET price == data.current_price[1]
        sl == criteria.stop_loss_percentage
        tp == criteria.take_profit_percentage
        inv == criteria.investment_amount
    IN  /\ ret.stop_loss_price = price * (100 - sl)
        /\ ret.take_profit_price = price * (100 + tp)
        /\ ret.total_risk = inv * sl
        /\ 2 * Abs(ret.risk_reward_ratio * sl - 100 * tp) <= sl
        /\ ret.conservative_value = inv * 108
        /\ ret.moderate_value = inv * 115
        /\ ret.aggressive_value = inv * 125

\* The documented example: price 100, budget 1000, stop 0.08, take 0.20.
C5_Example ==
    (data.current_price = Some(100) /\ criteria = InitCriteria) =>
        /\ ret.shares = 1000
        /\ ret.stop_loss_price = 9200
        /\ ret.take_profit_price = 12000
        /\ ret.total_risk = 8000
        /\ ret.risk_reward_ratio = 250
        /\ ret.conservative_value = 108000
        /\ ret.moderate_value = 115000
        /\ ret.aggressive_value = 125000

\* C5 as stated: the returned share count is investment_amount /
\* current_price with no rounding, beside the levels and the example.
C5_SharesUnrounded ==
    Built =>
        /\ ret.shares * data.current_price[1] = 100 * criteria.investment_amount
        /\ C5_Levels
        /\ C5_Example

\* C5 amended: the returned share count is investment_amount /
\* current_price rounded to the nearest hundredth (fractional, no rounding
\* to whole shares), while the levels, the risk and the projected values are
\* computed from the unrounded count; the example holds as stated.
C5_SharesRoundedToHundredths ==
    Built =>
        /\ 2 * Abs(ret.shares * data.current_price[1] - 100 * criteria.investment_amount)
              <= data.current_price[1]
        /\ C5_Levels
        /\ C5_Example

C5_Witness ==
    /\ Built
    /\ data.current_price = Some(3)
    /\ criteria = InitCriteria
    /\ ret.shares = 33333
    /\ ret.conservative_value = 108000

(***************************************************************************)
(* Properties of the projection (under SpecMC)                             *)
(***************************************************************************)
Projected == pc = "projected"

\* A fault inside the simulation: a draw with an unknown or negative
\* volatility, or no simulation at all.
C7_Fault ==
    \/ mcArgs.simulations = 0
    \/ /\ mcArgs.simulations > 0
       /\ mcArgs.days > 0
       /\ (mcArgs.volatility = None \/ mcArgs.volatility[1] < 0)

C7_FixedFallback ==
    [average |-> RInt(1150), best_case |-> RInt(1300), worst_case |-> RInt(850),
     probability_profit |-> [n |-> 13, d |-> 20]]

\* (2501/2500)^days * price * shares: the value of every trial when no shock
\* is drawn or every shock is 0.
RECURSIVE C7_DriftOnly(_, _)
C7_DriftOnly(value, days) ==
    IF days = 0 THEN value ELSE C7_DriftOnly(RMul(value, Rat(2501, 2500)), days - 1)

\* C7: on a fault the projection returns exactly the fixed fallback
\* (1150, 1300, 850, 0.65), whatever the caller's price and shares; without
\* a fault it returns the computed statistics, never the fallback.
C7_FallbackExactlyOnFault ==
    Projected =>
        IF C7_Fault
        THEN ret = C7_FixedFallback
        ELSE /\ ret # C7_FixedFallback
             /\ ret.probability_profit.d \in {k \in 1..mcArgs.simulations :
                                                 mcArgs.simulations % k = 0}
             /\ (mcArgs.days = 0 \/ mcArgs.volatility = Some(0)) =>
                   LET v == C7_DriftOnly(RInt(mcArgs.current_price * mcArgs.shares),
                                         mcArgs.days)
                   IN  ret.average = v /\ ret.best_case = v /\ ret.worst_case = v

C7_Witness ==
    /\ Projected
    /\ mcArgs.volatility = Some(-30)
    /\ mcArgs.current_price * mcArgs.shares = 250
    /\ mcArgs.days > 0
    /\ ret.average = RInt(1150)

\* The documented call: price 100, volatility 0.3, 10 shares.
C8_Call ==
    /\ Projected
    /\ mcArgs.current_price = 100
    /\ mcArgs.volatility = Some(30)
    /\ mcArgs.shares = 10
    /\ mcArgs.simulations > 0

C8_ProbabilityIsFraction ==
    /\ RLe(RInt(0), ret.probability_profit)
    /\ RLe(ret.probability_profit, RInt(1))

\* C8 as stated: for every outcome of the shocks, worst_case <= average <=
\* best_case and 0 <= probability_profit <= 1.
C8_AverageBetweenPercentiles ==
    C8_Call =>
        /\ RLe(ret.worst_case, ret.average)
        /\ RLe(ret.average, ret.best_case)
        /\ C8_ProbabilityIsFraction

\* C8 amended: for every outcome of the shocks, worst_case <= best_case and
\* 0 <= probability_profit <= 1; the average need not lie between the two
\* percentiles.
C8_PercentilesOrdered ==
    C8_Call =>
        /\ RLe(ret.worst_case, ret.best_case)
        /\ C8_ProbabilityIsFraction

\* An outcome where the average lies above the 90th percentile: a few trials
\* end high, the rest low.
C8_Witness ==
    /\ C8_Call
    /\ mcArgs.simulations = MaxSimulations
    /\ RLt(ret.best_case, ret.average)
    /\ RLt(RInt(0), ret.probability_profit)

(***************************************************************************)
(* Properties of the screening run (under Spec)                            *)
(***************************************************************************)
\* C6: no step of a screening run raises, whatever the records.
C6_NeverRaises == pc # "raised"

\* C10: the report of a run holds exactly the results of the tickers
\* screened in that run, one for each ticker that was retrieved, and none
\* from an earlier run.
C10_ReportOnlyThisRun ==
    pc = "done" =>
        /\ report.total = Len(runResults)
        /\ Len(report.passed_stocks) + Len(report.failed_stocks) = Len(runResults)
        /\ \A i \in 1..Len(report.passed_stocks) :
              \E j \in 1..Len(runResults) : report.passed_stocks[i] = runResults[j]
        /\ \A i \in 1..Len(report.failed_stocks) :
              \E j \in 1..Len(runResults) : report.failed_stocks[i] = runResults[j]

====
